---- MODULE Spec2Model ----
(***************************************************************************)
(* Model of the maid-chan LINE bot: the /webhook command dispatcher with   *)
(* its reply orchestration, and the admin endpoint that registers the      *)
(* Minecraft server address in Redis.                                      *)
(*                                                                         *)
(* The repository holds two variants of the same program:                  *)
(*   "hostname"  src/src/main.ts       (key SERVER_HOSTNAME, status(reply)) *)
(*   "url"       src/unnamed/part_000  (key serverURL, new URL(reply))      *)
(* The variable `variant` says which of the two is running.                *)
(*                                                                         *)
(* Strings that the code takes apart are sequences of tokens: a message    *)
(* text is a sequence of characters, an address is a sequence of the       *)
(* syntactic pieces a URL parser separates ("tcp://", a host, ":", a       *)
(* port).  Texts sent to the chat are sequences of fragments, in the order *)
(* the template literal concatenates them.                                 *)
(***************************************************************************)
EXTENDS Integers, Sequences, FiniteSets, TLC

(* ----------------------------- bounds ---------------------------------- *)
\* webhook calls served in one run
MaxCalls == 2
\* events in one webhook body
MaxBatchLen == 2
\* events handled in one run, over all webhook calls
MaxEvents == 2
\* registration requests served in one run
MaxRegs == 1
\* pieces a message text is put together from, when extractCommand is
\* exercised on its own
MaxPieces == 3
\* names in the player list of a snapshot, when formatServerResponse is
\* exercised on its own
MaxPlayers == 2
\* registration requests served in one run, when registrations race with
\* each other and with STATUS commands
MaxRaceRegs == 2

(* --------------------------- values ------------------------------------ *)
\* JavaScript values are records [t |-> type tag, v |-> payload], so that a
\* null, a string and a number can be told apart the way typeof does
NullVal == [t |-> "null", v |-> <<>>]
UndefinedVal == [t |-> "undefined", v |-> <<>>]
NaNVal == [t |-> "NaN", v |-> <<>>]
Str(s) == [t |-> "string", v |-> s]
Num(n) == [t |-> "number", v |-> n]
Arr(a) == [t |-> "array", v |-> a]

\* the typeof operator on the values above
TypeOf(x) ==
    CASE x.t = "string" -> "string"
      [] x.t = "number" -> "number"
      [] x.t = "NaN" -> "number"
      [] x.t = "undefined" -> "undefined"
      [] OTHER -> "object"

\* enum commandType
HELP == "HELP"
MCSTATUS == "MCSTATUS"
INVALID == "INVALID"

\* enum replyErrors
REDIS_FAIL_GET == "redis_fail_get"
REDIS_NOT_STRING == "redis_not_string"
MC_QUERY_FAIL == "mc_query_fail"

\* the two command tokens, as character sequences
HelpToken == <<"/", "h", "e", "l", "p">>
StatusToken == <<"/", "m", "c", "s", "t", "a", "t", "u", "s">>

\* String.prototype.indexOf: first position (0-based) of pat in msg, else -1
IndexOf(msg, pat) ==
    LET hits == {i \in 1..(Len(msg) - Len(pat) + 1) :
                    SubSeq(msg, i, i + Len(pat) - 1) = pat}
    IN IF hits = {} THEN -1
       ELSE (CHOOSE i \in hits : \A j \in hits : i <= j) - 1

\* extractCommand with the two tests in the other order
extractCommandStatusFirst(message) ==
    IF IndexOf(message, StatusToken) # -1 THEN MCSTATUS
    ELSE IF IndexOf(message, HelpToken) # -1 THEN HELP
    ELSE INVALID

extractCommand(message) ==
    IF IndexOf(message, HelpToken) # -1 THEN HELP
    ELSE IF IndexOf(message, StatusToken) # -1 THEN MCSTATUS
    ELSE INVALID

(* ------------------------- chat texts ---------------------------------- *)
helpMessage ==
    <<"Command list:\n",
      "/help Display this message\n",
      "/mcstatus Check the status of my master's Minecraft Server\n">>

invalidMessage == <<"Invalid command. Type /help to get some help">>

\* an error reply that passes the bare code on
OfflineMessageBareCode(code) == <<code>>

\* `Server is offline. Code: ${replyErrors...}`
OfflineMessage(code) == <<"Server is offline. Code: ", code>>

\* Array.prototype.toString of the player names: joined by ","
RECURSIVE JoinNames(_)
JoinNames(names) ==
    IF names = <<>> THEN <<>>
    ELSE IF Len(names) = 1 THEN <<names[1]>>
    ELSE <<names[1], ",">> \o JoinNames(Tail(names))

PlayersField(samplePlayers) ==
    IF samplePlayers.t = "null" \/ Len(samplePlayers.v) < 1
    THEN <<"none">>
    ELSE JoinNames(samplePlayers.v)

\* formatServerResponse; ngrokPort is Undefined in the "hostname" variant,
\* which has no port line at all
formatServerResponse(v, srvResp, ngrokPort) ==
    <<"Server address: ">> \o srvResp.host
    \o (IF v = "url"
        THEN <<"Server port: ",
               IF ngrokPort.t = "undefined" THEN "25565" ELSE ngrokPort.v>>
        ELSE <<>>)
    \o <<"Server version: ", srvResp.version>>
    \o <<"Online players: ", srvResp.onlinePlayers, "/", srvResp.maxPlayers>>
    \o <<"Players: ">> \o PlayersField(srvResp.samplePlayers)
    \o <<"Server Description: ", srvResp.description>>

(* --------------------------- addresses --------------------------------- *)
\* the strings a registration body may carry
AddrStrings ==
    { <<>>,                                  \* ""
      <<"mc1", ":", "25565">>,               \* "mc1:25565"
      <<"tcp://", "mc1", ":", "25565">>,     \* "tcp://mc1:25565"
      <<"tcp://", "mc2", ":", "25566">> }    \* "tcp://mc2:25566"


\* new URL(s): ok is FALSE where the constructor throws TypeError (no scheme);
\* "tcp://h:p" has hostname h and port p; "h:p" is read as scheme h with an
\* opaque path, so its hostname and port are both empty
UrlParse(s) ==
    IF s = <<>> THEN [ok |-> FALSE, hostname |-> <<>>, port |-> ""]
    ELSE IF s[1] = "tcp://"
    THEN [ok |-> TRUE,
          hostname |-> IF Len(s) >= 2 THEN <<s[2]>> ELSE <<>>,
          port |-> IF Len(s) = 4 /\ s[3] = ":" THEN s[4] ELSE ""]
    ELSE IF Len(s) >= 2 /\ s[2] = ":"
    THEN [ok |-> TRUE, hostname |-> <<>>, port |-> ""]
    ELSE [ok |-> FALSE, hostname |-> <<>>, port |-> ""]

\* the decimal numerals that occur as ports
DecimalValue == ("25565" :> 25565) @@ ("25566" :> 25566)

\* parseInt on a port string
ParseInt(p) == IF p \in DOMAIN DecimalValue THEN Num(DecimalValue[p]) ELSE NaNVal

\* StatusArgs with the port option forgotten
StatusArgsNoPort(v, reply) ==
    [host |-> IF v = "url" THEN UrlParse(reply).hostname ELSE reply,
     port |-> UndefinedVal]

\* the arguments of the status(...) call made for the stored string `reply`
StatusArgs(v, reply) ==
    IF v = "url"
    THEN [host |-> UrlParse(reply).hostname, port |-> ParseInt(UrlParse(reply).port)]
    ELSE [host |-> reply, port |-> UndefinedVal]

\* the port handed to formatServerResponse
NgrokPort(v, reply) ==
    IF v = "url" THEN Str(UrlParse(reply).port) ELSE UndefinedVal

\* what Redis may hold when the process starts: nothing, a bare host name
\* (no scheme, so not a URL), or a tcp:// URL
InitialStores == {NullVal, Str(<<"mc1">>), Str(<<"tcp://", "mc1", ":", "25565">>)}

(* ----------------------- registration checks --------------------------- *)
\* process.env.AUTH_KEY
AUTH_KEY == Str("secret")

\* the authorization headers a request may carry
AuthHeaders == {UndefinedVal, Str("secret"), Str("wrong")}

\* validator isURL with protocols ["tcp"], require_protocol, require_host and
\* require_port
IsURL(s) == Len(s) = 4 /\ s[1] = "tcp://" /\ s[3] = ":"

\* a registration route without its validation chain
ValidationErrorsNone(v, body) == <<>>

\* the express-validator chain of the registration route: the messages of the
\* validators that fail, in chain order
ValidationErrors(v, body) ==
    IF v = "url"
    THEN (IF body = <<>> THEN <<"Please provide a valid Minecraft server URL">> ELSE <<>>)
         \o (IF ~IsURL(body) THEN <<"Please provide a valid Minecraft server URL">> ELSE <<>>)
    ELSE (IF body = <<>> THEN <<"Please provide server hostname">> ELSE <<>>)

(* ----------------------------- events ---------------------------------- *)
TextEvent(t) == [type |-> "message", mtype |-> "text", text |-> t]
ImageEvent == [type |-> "message", mtype |-> "image", text |-> <<>>]
FollowEvent == [type |-> "follow", mtype |-> "none", text |-> <<>>]

Texts == {HelpToken, StatusToken, <<"h", "i">>}

Events == {TextEvent(t) : t \in Texts} \cup {ImageEvent, FollowEvent}

Batches == UNION {[1..n -> Events] : n \in 0..MaxBatchLen}

\* what the game server may answer
Snapshots ==
    { [version |-> "1.16.4", onlinePlayers |-> "0", maxPlayers |-> "20",
       samplePlayers |-> NullVal, description |-> "A Minecraft Server"],
      [version |-> "1.16.4", onlinePlayers |-> "2", maxPlayers |-> "20",
       samplePlayers |-> Arr(<<"a", "b">>), description |-> "A Minecraft Server"] }

(* ------------------------------ state ---------------------------------- *)
VARIABLES
    variant,    \* which of the two source files is running
    alive,      \* FALSE once an uncaught exception has ended the process
    store,      \* the value Redis holds under the address key
    calls,      \* calls[c]: the c-th POST /webhook request and its response
    ops,        \* ops[c][i]: the handling of event i of call c
    regs,       \* regs[r]: the r-th registration request and its response
    arg,        \* the argument a pure function of the program is applied to
    result      \* the value the function returned (NoResult before the call)

vars == <<variant, alive, store, calls, ops, regs, arg, result>>

\* the server is running; no pure function is being exercised on its own
NoArg == [fn |-> "none"]
NoResult == [t |-> "none"]

IdleCall == [state |-> "idle", events |-> <<>>, awaited |-> <<>>, status |-> 0, via |-> "none"]

IdleReg == [state |-> "idle", auth |-> UndefinedVal, body |-> <<>>,
            status |-> 0, sent |-> "none", errors |-> <<>>,
            writes |-> 0, held |-> NullVal]

\* the StatusResponse fields the program reads, before any answer has come
NoResponse == [host |-> <<>>, version |-> "", onlinePlayers |-> "", maxPlayers |-> "",
               samplePlayers |-> NullVal, description |-> ""]

\* an event for which handleEvent's callback returned undefined and started nothing
\* (`reads` counts the redisClient.get calls made for the event)
NoOp == [pc |-> "none", promise |-> "none", sent |-> <<>>,
         reads |-> 0, err |-> FALSE, reply |-> NullVal,
         args |-> [host |-> <<>>, port |-> UndefinedVal],
         query |-> "none", srvResp |-> NoResponse]

Init ==
    /\ variant \in {"hostname", "url"}
    /\ alive = TRUE
    /\ store \in InitialStores
    /\ calls = [c \in 1..MaxCalls |-> IdleCall]
    /\ ops = [c \in 1..MaxCalls |-> <<>>]
    /\ regs = [r \in 1..MaxRegs |-> IdleReg]
    /\ arg = NoArg
    /\ result = NoResult

(* ----------------------------- /webhook -------------------------------- *)
\* the number of events received so far
RECURSIVE EventsUpTo(_, _)
EventsUpTo(cs, c) == IF c = 0 THEN 0 ELSE Len(cs[c].events) + EventsUpTo(cs, c - 1)

\* linePromiseReply(event, text): one replyMessage call for the event's reply
\* token; `sent` is the list of texts sent so far for that token
linePromiseReply(op, text) == [op EXCEPT !.sent = Append(@, text)]

\* the callback without the switch on the message type: every message event
\* is taken for a text message
HandleOneAnyMessage(ev) ==
    IF ev.type = "message"
    THEN CASE extractCommand(ev.text) = HELP ->
                [linePromiseReply(NoOp, helpMessage)
                   EXCEPT !.pc = "sendDirect", !.promise = "pending"]
           [] extractCommand(ev.text) = MCSTATUS ->
                [NoOp EXCEPT !.pc = "get", !.reads = @ + 1]
           [] extractCommand(ev.text) = INVALID ->
                [linePromiseReply(NoOp, invalidMessage)
                   EXCEPT !.pc = "sendDirect", !.promise = "pending"]
    ELSE NoOp

\* the callback with a HELP case that does not return: it sends the help
\* text and falls through into the MCSTATUS case
HandleOneHelpFallsThrough(ev) ==
    IF ev.type = "message"
    THEN IF ev.mtype = "text"
         THEN CASE extractCommand(ev.text) = HELP ->
                     [linePromiseReply(NoOp, helpMessage)
                        EXCEPT !.pc = "get", !.reads = @ + 1]
                [] extractCommand(ev.text) = MCSTATUS ->
                     [NoOp EXCEPT !.pc = "get", !.reads = @ + 1]
                [] extractCommand(ev.text) = INVALID ->
                     [linePromiseReply(NoOp, invalidMessage)
                        EXCEPT !.pc = "sendDirect", !.promise = "pending"]
         ELSE NoOp
    ELSE NoOp

\* the callback handleEvent maps over the events: the operation it starts for
\* one event and the value it returns (promise "none" is undefined)
HandleOne(ev) ==
    IF ev.type = "message"
    THEN IF ev.mtype = "text"
         THEN CASE extractCommand(ev.text) = HELP ->
                     [linePromiseReply(NoOp, helpMessage)
                        EXCEPT !.pc = "sendDirect", !.promise = "pending"]
                [] extractCommand(ev.text) = MCSTATUS ->
                     \* redisClient.get(...) is issued, then break: undefined
                     [NoOp EXCEPT !.pc = "get", !.reads = @ + 1]
                [] extractCommand(ev.text) = INVALID ->
                     [linePromiseReply(NoOp, invalidMessage)
                        EXCEPT !.pc = "sendDirect", !.promise = "pending"]
         ELSE NoOp
    ELSE NoOp

handleEvent(events) == [i \in 1..Len(events) |-> HandleOne(events[i])]

\* .filter(v => v !== undefined): the indices of the promises kept, in order
RECURSIVE FilterDefined(_, _)
FilterDefined(results, i) ==
    IF i > Len(results) THEN <<>>
    ELSE (IF results[i].promise # "none" THEN <<i>> ELSE <<>>)
         \o FilterDefined(results, i + 1)

\* the state of Promise.all over the awaited promises
PromiseAll(results, awaited) ==
    IF \E k \in 1..Len(awaited) : results[awaited[k]].promise = "rejected"
    THEN "rejected"
    ELSE IF \A k \in 1..Len(awaited) : results[awaited[k]].promise = "fulfilled"
    THEN "fulfilled"
    ELSE "pending"

\* .then(res.json).catch(...): res.json is handed over without its receiver,
\* so calling it throws a TypeError that the catch handler receives; either
\* way the catch handler sets status 400 and sends the reason.  `via` tells
\* the two ways apart: "then-catch" when every awaited promise was fulfilled,
\* "catch" when one of them was rejected.  A call that has responded stays as
\* it is: later settlements change nothing.
Settle(call, outcome) ==
    IF call.state # "open" \/ outcome = "pending" THEN call
    ELSE [call EXCEPT !.state = "responded", !.status = 400,
                      !.via = IF outcome = "fulfilled" THEN "then-catch" ELSE "catch"]

Webhook(c, events) ==
    /\ alive
    /\ calls[c].state = "idle"
    /\ \A d \in 1..(c - 1) : calls[d].state # "idle"
    /\ EventsUpTo(calls, MaxCalls) + Len(events) <= MaxEvents
    /\ LET results == handleEvent(events)
           awaited == FilterDefined(results, 1)
           opened == [calls[c] EXCEPT !.state = "open", !.events = events,
                                      !.awaited = awaited]
       IN /\ ops' = [ops EXCEPT ![c] = results]
          /\ calls' = [calls EXCEPT ![c] = Settle(opened, PromiseAll(results, awaited))]
    /\ UNCHANGED <<variant, alive, store, regs, arg, result>>

\* ReplyBranch without the test of err
ReplyBranchNoErrCheck(v, err, reply) ==
    IF TypeOf(reply) = "string"
    THEN (IF v = "url" /\ ~UrlParse(reply.v).ok THEN "throw" ELSE "query")
    ELSE "not_string"

\* the branch the callback of redisClient.get takes:
\*   err !== null                -> the REDIS_FAIL_GET reply
\*   typeof reply === "string"   -> the status query; in the "url" variant the
\*                                  arguments are built with new URL(reply),
\*                                  which throws when reply is no URL
\*   default                     -> the REDIS_NOT_STRING reply
ReplyBranch(v, err, reply) ==
    IF err THEN "fail_get"
    ELSE IF TypeOf(reply) = "string"
    THEN (IF v = "url" /\ ~UrlParse(reply.v).ok THEN "throw" ELSE "query")
    ELSE "not_string"

\* the callback of redisClient.get
RedisGetReply(c, i, err) ==
    /\ alive
    /\ i \in 1..Len(ops[c])
    /\ ops[c][i].pc = "get"
    /\ LET op == ops[c][i]
           reply == IF err THEN NullVal ELSE store
           got == [op EXCEPT !.err = err, !.reply = reply]
           branch == ReplyBranch(variant, err, reply)
       IN /\ ops' = [ops EXCEPT ![c][i] =
               CASE branch = "fail_get" ->
                      [linePromiseReply(got, OfflineMessage(REDIS_FAIL_GET))
                         EXCEPT !.pc = "sendCb"]
                 [] branch = "not_string" ->
                      [linePromiseReply(got, OfflineMessage(REDIS_NOT_STRING))
                         EXCEPT !.pc = "sendCb"]
                 [] branch = "query" ->
                      [got EXCEPT !.pc = "status", !.query = "pending",
                                  !.args = StatusArgs(variant, reply.v)]
                 [] branch = "throw" ->
                      \* nothing catches the TypeError: the process ends
                      [got EXCEPT !.pc = "threw"]]
          /\ alive' = (branch # "throw")
    /\ UNCHANGED <<variant, store, calls, regs, arg, result>>

\* the then handler reading the port to show from Redis again, instead of
\* from the reply it was given
StatusSettleReadsAgain(c, i, ok, snapshot) ==
    /\ alive
    /\ i \in 1..Len(ops[c])
    /\ ops[c][i].pc = "status"
    /\ LET op == ops[c][i]
           srvResp == [host |-> op.args.host] @@ snapshot
           again == IF store.t = "string" THEN store.v ELSE <<>>
       IN ops' = [ops EXCEPT ![c][i] =
            IF ok
            THEN [linePromiseReply(op,
                     formatServerResponse(variant, srvResp, NgrokPort(variant, again)))
                    EXCEPT !.pc = "sendThen", !.query = "ok", !.srvResp = srvResp]
            ELSE [linePromiseReply(op, OfflineMessage(MC_QUERY_FAIL))
                    EXCEPT !.pc = "sendCatch", !.query = "fail"]]
    /\ UNCHANGED <<variant, alive, store, calls, regs, arg, result>>

\* status(...) settles: the then handler on success, the catch handler on failure
StatusSettle(c, i, ok, snapshot) ==
    /\ alive
    /\ i \in 1..Len(ops[c])
    /\ ops[c][i].pc = "status"
    /\ LET op == ops[c][i]
           srvResp == [host |-> op.args.host] @@ snapshot
       IN ops' = [ops EXCEPT ![c][i] =
            IF ok
            THEN [linePromiseReply(op,
                     formatServerResponse(variant, srvResp, NgrokPort(variant, op.reply.v)))
                    EXCEPT !.pc = "sendThen", !.query = "ok", !.srvResp = srvResp]
            ELSE [linePromiseReply(op, OfflineMessage(MC_QUERY_FAIL))
                    EXCEPT !.pc = "sendCatch", !.query = "fail"]]
    /\ UNCHANGED <<variant, alive, store, calls, regs, arg, result>>

\* the promise of one replyMessage call settles.  What happens next depends
\* on where the call was made:
\*   sendDirect  returned by the map callback: one of the awaited promises
\*   sendThen    made in the then handler: a rejection goes to the catch handler
\*   sendCb, sendCatch  returned into the Redis callback, whose caller drops
\*               it: a rejection is an unhandled rejection, which the runtime
\*               either only reports or ends the process with (fatal)
ReplySettle(c, i, ok, fatal) ==
    /\ alive
    /\ i \in 1..Len(ops[c])
    /\ LET op == ops[c][i] IN
       CASE op.pc = "sendDirect" ->
              /\ ~fatal
              /\ LET results == [ops[c] EXCEPT ![i] =
                        [op EXCEPT !.pc = "done",
                                   !.promise = IF ok THEN "fulfilled" ELSE "rejected"]]
                 IN /\ ops' = [ops EXCEPT ![c] = results]
                    /\ calls' = [calls EXCEPT ![c] =
                            Settle(@, PromiseAll(results, calls[c].awaited))]
              /\ alive' = alive
         [] op.pc = "sendThen" ->
              /\ ~fatal
              /\ ops' = [ops EXCEPT ![c][i] =
                    IF ok THEN [op EXCEPT !.pc = "done"]
                    ELSE [linePromiseReply(op, OfflineMessage(MC_QUERY_FAIL))
                            EXCEPT !.pc = "sendCatch"]]
              /\ UNCHANGED <<calls, alive>>
         [] op.pc \in {"sendCb", "sendCatch"} ->
              /\ fatal => ~ok
              /\ ops' = [ops EXCEPT ![c][i] = [op EXCEPT !.pc = IF ok THEN "done" ELSE "lost"]]
              /\ alive' = ~fatal
              /\ UNCHANGED calls
         [] OTHER -> FALSE
    /\ UNCHANGED <<variant, store, regs, arg, result>>

(* ------------------------- registration -------------------------------- *)
\* authMiddleware that only tests that the header is there
authMiddlewareAnyHeader(auth) ==
    IF auth.t = "undefined" THEN "Undefined auth header" ELSE "next"

\* authMiddleware: the text it rejects the request with, or "next"
authMiddleware(auth) ==
    IF auth.t = "undefined" THEN "Undefined auth header"
    ELSE IF auth # AUTH_KEY THEN "Invalid auth header"
    ELSE "next"

\* POST /setServerHostname (POST /serverURL): authMiddleware, the validation
\* chain, then the route handler up to the redisClient.set call.  `writes`
\* counts the redisClient.set calls the request has made.
Register(r, auth, body) ==
    /\ alive
    /\ regs[r].state = "idle"
    /\ \A q \in 1..(r - 1) : regs[q].state # "idle"
    /\ LET seen == [regs[r] EXCEPT !.auth = auth]
           req == [seen EXCEPT !.body = body]
       IN
       regs' = [regs EXCEPT ![r] =
         IF authMiddleware(auth) # "next"
         THEN [seen EXCEPT !.state = "done", !.status = 400, !.sent = authMiddleware(auth)]
         ELSE IF ValidationErrors(variant, body) # <<>>
         THEN \* res.json(errors): the status is left at its default
              [req EXCEPT !.state = "done", !.status = 200, !.sent = "errors",
                          !.errors = ValidationErrors(variant, body)]
         ELSE [req EXCEPT !.state = "set", !.writes = @ + 1]]
    /\ UNCHANGED <<variant, alive, store, calls, ops, arg, result>>

\* redisClient.set(key, value): the value of the key after the command
RedisSet(old, value) == Str(value)

\* Redis executes the SET (or fails to) and the callback of redisClient.set
\* runs.  res.header(500) sets no header and leaves the status at its
\* default.  `held` is what Redis holds when it acknowledges the command.
RedisSetReply(r, err) ==
    /\ regs[r].state = "set"
    /\ store' = IF err THEN store ELSE RedisSet(store, regs[r].body)
    /\ regs' = [regs EXCEPT ![r] =
         IF ~alive THEN [@ EXCEPT !.state = "dropped"]
         ELSE IF err
         THEN [@ EXCEPT !.state = "done", !.status = 200, !.sent = "Server Error"]
         ELSE [@ EXCEPT !.state = "done", !.status = 200, !.sent = "OK",
                        !.held = store']]
    /\ UNCHANGED <<variant, alive, calls, ops, arg, result>>

(* --------------------------- specification ----------------------------- *)
Next ==
    \/ \E c \in 1..MaxCalls, events \in Batches : Webhook(c, events)
    \/ \E c \in 1..MaxCalls, i \in 1..MaxBatchLen, err \in BOOLEAN :
          RedisGetReply(c, i, err)
    \/ \E c \in 1..MaxCalls, i \in 1..MaxBatchLen, ok \in BOOLEAN,
          snapshot \in Snapshots : StatusSettle(c, i, ok, snapshot)
    \/ \E c \in 1..MaxCalls, i \in 1..MaxBatchLen, ok \in BOOLEAN,
          fatal \in BOOLEAN : ReplySettle(c, i, ok, fatal)
    \/ \E r \in 1..MaxRegs, auth \in AuthHeaders, body \in AddrStrings :
          Register(r, auth, body)
    \/ \E r \in 1..MaxRegs, err \in BOOLEAN : RedisSetReply(r, err)

Spec == Init /\ [][Next]_vars

(* ------------- registrations racing with STATUS commands --------------- *)
\* the server as it starts, about to serve up to MaxRaceRegs registrations
InitRace ==
    /\ variant \in {"hostname", "url"}
    /\ alive = TRUE
    /\ store \in InitialStores
    /\ calls = [c \in 1..MaxCalls |-> IdleCall]
    /\ ops = [c \in 1..MaxCalls |-> <<>>]
    /\ regs = [r \in 1..MaxRaceRegs |-> IdleReg]
    /\ arg = NoArg
    /\ result = NoResult

\* the same handlers and callbacks as in Next; the webhook bodies carry one
\* /mcstatus text message each
NextRace ==
    \/ \E c \in 1..MaxCalls : Webhook(c, <<TextEvent(StatusToken)>>)
    \/ \E c \in 1..MaxCalls, i \in 1..MaxBatchLen, err \in BOOLEAN :
          RedisGetReply(c, i, err)
    \/ \E c \in 1..MaxCalls, i \in 1..MaxBatchLen, ok \in BOOLEAN,
          snapshot \in Snapshots : StatusSettle(c, i, ok, snapshot)
    \/ \E c \in 1..MaxCalls, i \in 1..MaxBatchLen, ok \in BOOLEAN,
          fatal \in BOOLEAN : ReplySettle(c, i, ok, fatal)
    \/ \E r \in 1..MaxRaceRegs, auth \in AuthHeaders, body \in AddrStrings :
          Register(r, auth, body)
    \/ \E r \in 1..MaxRaceRegs, err \in BOOLEAN : RedisSetReply(r, err)

SpecRace == InitRace /\ [][NextRace]_vars

(* ------------------- extractCommand on its own ------------------------- *)
\* pieces of message texts: the two tokens, a token in capitals, the halves
\* of each token (which make up the token when they meet), other characters
TextPieces ==
    { HelpToken, StatusToken, <<"/", "H", "E", "L", "P">>,
      <<"/", "h", "e", "l">>, <<"p">>,
      <<"/", "m", "c">>, <<"s", "t", "a", "t", "u", "s">>,
      <<"x">>, <<" ">> }

\* the texts of at most n pieces
RECURSIVE TextsOf(_)
TextsOf(n) ==
    IF n = 0 THEN {<<>>}
    ELSE LET shorter == TextsOf(n - 1)
         IN shorter \cup {t \o piece : t \in shorter, piece \in TextPieces}

ExtractTexts == TextsOf(MaxPieces)

\* a caller is about to apply extractCommand to some message text
InitExtract ==
    /\ variant \in {"hostname", "url"}
    /\ alive = TRUE
    /\ store = NullVal
    /\ calls = [c \in 1..MaxCalls |-> IdleCall]
    /\ ops = [c \in 1..MaxCalls |-> <<>>]
    /\ regs = [r \in 1..MaxRegs |-> IdleReg]
    /\ arg \in {[fn |-> "extractCommand", message |-> t] : t \in ExtractTexts}
    /\ result = NoResult

\* the call returns
ExtractCall ==
    /\ arg.fn = "extractCommand"
    /\ result = NoResult
    /\ result' = [t |-> "value", v |-> extractCommand(arg.message)]
    /\ UNCHANGED <<variant, alive, store, calls, ops, regs, arg>>

NextExtract == ExtractCall

SpecExtract == InitExtract /\ [][NextExtract]_vars

(* ----------------- formatServerResponse on its own --------------------- *)
\* the player lists of at most n names
RECURSIVE NameLists(_)
NameLists(n) ==
    IF n = 0 THEN {<<>>}
    ELSE LET shorter == NameLists(n - 1)
         IN shorter \cup {Append(l, name) : l \in shorter, name \in {"a", "b"}}

\* srvResp.samplePlayers: null, or a list of players (possibly empty)
PlayerLists == {NullVal} \cup {Arr(l) : l \in NameLists(MaxPlayers)}

\* the StatusResponse the formatter is given
FormatResponses ==
    { [host |-> h, version |-> "1.16.4", onlinePlayers |-> "2", maxPlayers |-> "20",
       samplePlayers |-> players, description |-> "A Minecraft Server"] :
         h \in {<<"mc1">>, <<"mc2">>}, players \in PlayerLists }

\* the second argument: main.ts has no such parameter; part_000 is given
\* new URL(reply).port, which is "" for a URL without port, and the
\* parameter is optional (undefined when left out)
FormatPorts(v) ==
    IF v = "url" THEN {UndefinedVal, Str("25565"), Str("25566"), Str("")}
    ELSE {UndefinedVal}

\* a caller is about to apply formatServerResponse to a snapshot
InitFormat ==
    /\ variant \in {"hostname", "url"}
    /\ alive = TRUE
    /\ store = NullVal
    /\ calls = [c \in 1..MaxCalls |-> IdleCall]
    /\ ops = [c \in 1..MaxCalls |-> <<>>]
    /\ regs = [r \in 1..MaxRegs |-> IdleReg]
    /\ arg \in {[fn |-> "formatServerResponse", srvResp |-> r, ngrokPort |-> port] :
                   r \in FormatResponses, port \in FormatPorts(variant)}
    /\ result = NoResult

\* the call returns
FormatCall ==
    /\ arg.fn = "formatServerResponse"
    /\ result = NoResult
    /\ result' = [t |-> "value",
                  v |-> formatServerResponse(variant, arg.srvResp, arg.ngrokPort)]
    /\ UNCHANGED <<variant, alive, store, calls, ops, regs, arg>>

NextFormat == FormatCall

SpecFormat == InitFormat /\ [][NextFormat]_vars

(* ====================== properties of the program ====================== *)
\* the events received so far, as (call, index) pairs
Slots == {<<c, i>> \in (1..MaxCalls) \X (1..MaxBatchLen) : i <= Len(ops[c])}

EventAt(sl) == calls[sl[1]].events[sl[2]]
OpAt(sl) == ops[sl[1]][sl[2]]

IsTextEvent(ev) == ev.type = "message" /\ ev.mtype = "text"
IsStatusEvent(ev) == IsTextEvent(ev) /\ IndexOf(ev.text, HelpToken) = -1
                     /\ IndexOf(ev.text, StatusToken) >= 0

\* the indices of the text-message events of a batch, in batch order
RECURSIVE TextIndices(_, _)
TextIndices(events, i) ==
    IF i > Len(events) THEN <<>>
    ELSE (IF IsTextEvent(events[i]) THEN <<i>> ELSE <<>>) \o TextIndices(events, i + 1)

\* C1 (as claimed): for every event, at most one reply-send call is ever
\* made for its reply token, whatever the store read, the status query and
\* the sends themselves do.
C1_AtMostOneReply ==
    \A sl \in Slots : Len(OpAt(sl).sent) <= 1

\* C2 (as claimed), in the form a finite run refutes: once the store read of
\* a STATUS event has completed, and the status query it started (if any)
\* has completed too, a reply-send call has been made for the event,
\* whatever value the store held.
C2_StatusReplied ==
    \A sl \in Slots :
        (IsStatusEvent(EventAt(sl)) /\ OpAt(sl).pc \notin {"get", "status"})
            => Len(OpAt(sl).sent) >= 1

\* C3 (as claimed): when the webhook response has been sent and no awaited
\* operation has failed, the reply of every text-message event of the batch,
\* STATUS events included, has already been sent.
C3_ResponseAfterReplies ==
    \A c \in 1..MaxCalls :
        (calls[c].state = "responded" /\ calls[c].via # "catch")
            => \A i \in 1..Len(ops[c]) :
                  IsTextEvent(calls[c].events[i]) => Len(ops[c][i].sent) >= 1

\* C4 (as claimed): the operations the webhook awaits are exactly one per
\* text-message event of the batch (HELP, STATUS or INVALID), in batch order.
C4_OneOperationPerMessage ==
    \A c \in 1..MaxCalls :
        calls[c].state # "idle" => calls[c].awaited = TextIndices(calls[c].events, 1)

\* the text the claim C5 names for the outcome recorded in a STATUS operation
C5_Expected(op) ==
    IF op.err THEN <<"Server is offline. Code: ", "redis_fail_get">>
    ELSE IF op.reply.t # "string" THEN <<"Server is offline. Code: ", "redis_not_string">>
    ELSE IF op.query = "fail" THEN <<"Server is offline. Code: ", "mc_query_fail">>
    ELSE formatServerResponse(variant, op.srvResp, NgrokPort(variant, op.reply.v))

\* C5: for a STATUS event whose lookup chain has reached one of the four
\* outcomes (read failed; read gave no string; query failed; query
\* succeeded), a reply has been sent and the text of the reply is the one
\* that belongs to the outcome: the three coded texts, or the rendering of
\* the snapshot the query returned.
C5_StatusReplyText ==
    \A sl \in Slots :
        LET op == OpAt(sl) IN
        (/\ IsStatusEvent(EventAt(sl))
         /\ op.pc # "get"
         /\ (op.err \/ op.reply.t # "string" \/ op.query \in {"ok", "fail"}))
            => /\ Len(op.sent) >= 1
               /\ op.sent[1] = C5_Expected(op)
               /\ (op.query = "ok" =>
                      /\ op.srvResp.version \in {snap.version : snap \in Snapshots}
                      /\ \E k \in 1..Len(op.sent[1]) : op.sent[1][k] = op.srvResp.version)

\* C5 witness: a STATUS event whose status query succeeded, with a snapshot
\* that lists players, has been answered
C5_Witness ==
    \E sl \in Slots :
        /\ IsStatusEvent(EventAt(sl))
        /\ OpAt(sl).query = "ok"
        /\ OpAt(sl).srvResp.samplePlayers.t = "array"
        /\ Len(OpAt(sl).sent) >= 1

\* C6 (as claimed): a stored string that is no parseable address never makes
\* the store-read callback throw and never ends the process: the STATUS
\* event ends in a reply.
C6_NoCrashOnBadAddress ==
    \A sl \in Slots :
        LET op == OpAt(sl) IN
        (/\ IsStatusEvent(EventAt(sl))
         /\ op.pc # "get"
         /\ ~op.err
         /\ op.reply.t = "string"
         /\ ~UrlParse(op.reply.v).ok)
            => op.pc # "threw" /\ (op.pc # "status" => Len(op.sent) >= 1)

\* C7: a registration request whose authorization header is missing or is
\* not the secret is answered with a 400-class status and makes no store
\* write, whatever its body: handling it leaves the store as it was, and the
\* request never reaches the redisClient.set call afterwards.
C7_AuthRejected ==
    [][\A r \in 1..MaxRegs :
          (regs'[r].state # "idle" /\ regs'[r].auth # Str("secret"))
             => /\ regs'[r].state = "done"
                /\ regs'[r].status \in 400..499
                /\ regs'[r].writes = 0
                /\ (regs[r].state = "idle" => store' = store)]_vars

\* C7 witness: a request with a wrong secret has been answered
C7_Witness ==
    \E r \in 1..MaxRegs :
        /\ regs[r].state = "done"
        /\ regs[r].auth = Str("wrong")
        /\ regs[r].status = 400

\* C8 (as claimed): an authenticated registration request whose address the
\* validation rejects is answered with a 400-class status and the list of
\* violated rules, and makes no store write.
C8_ValidationRejected ==
    \A r \in 1..MaxRegs :
        (/\ regs[r].state # "idle"
         /\ regs[r].auth = Str("secret")
         /\ (regs[r].body = <<>> \/ (variant = "url" /\ ~IsURL(regs[r].body))))
            => /\ regs[r].state = "done"
               /\ regs[r].status \in 400..499
               /\ regs[r].errors # <<>>
               /\ regs[r].writes = 0

\* C9 (as claimed): when the store write of an accepted registration fails,
\* the response has a 500-class status and the generic failure text.
C9_WriteFailure ==
    \A r \in 1..MaxRegs :
        (regs[r].state = "done" /\ regs[r].sent = "Server Error")
            => regs[r].status \in 500..599

\* an address of the form host:port, and one of the form tcp://host:port
IsHostPort(s) == Len(s) = 3 /\ s[2] = ":"
IsTcpUrl(s) == Len(s) = 4 /\ s[1] = "tcp://" /\ s[3] = ":"

\* the number a port numeral stands for
PortNumber(p) == IF p = "25565" THEN 25565 ELSE IF p = "25566" THEN 25566 ELSE -1

C11_RepliesIndependent ==
    \A a \in Slots : \A b \in Slots :
        (/\ a # b
         /\ (OpAt(a).pc \in {"threw", "lost"} \/ OpAt(a).promise = "rejected")
         /\ IsTextEvent(EventAt(b))
         /\ OpAt(b).pc \in {"get", "status"})
            => alive

\* token occurs in text as a run of consecutive characters
Contains(text, token) ==
    \E i \in 0..Len(text) : \E j \in i..Len(text) : SubSeq(text, i + 1, j) = token

\* C12: extractCommand returns a command kind for every text: HELP when the
\* text contains "/help" anywhere (also when it contains "/mcstatus" too, on
\* either side), STATUS when it contains "/mcstatus" and not "/help",
\* INVALID otherwise; the match is on the exact characters (a token in
\* capitals is no match) and anywhere in the text, not only at its start.
C12_ExtractTotal ==
    (arg.fn = "extractCommand" /\ result.t = "value")
        => result.v =
             IF Contains(arg.message, <<"/", "h", "e", "l", "p">>) THEN "HELP"
             ELSE IF Contains(arg.message, <<"/", "m", "c", "s", "t", "a", "t", "u", "s">>)
             THEN "MCSTATUS"
             ELSE "INVALID"

\* C12 witness: extractCommand has returned HELP for a text in which
\* "/mcstatus" comes first and "/help" follows other characters
C12_Witness ==
    /\ arg.fn = "extractCommand"
    /\ result.t = "value"
    /\ result.v = "HELP"
    /\ arg.message = <<"/", "m", "c", "s", "t", "a", "t", "u", "s">> \o <<"x">>
                       \o <<"/", "h", "e", "l", "p">>

\* C13: an event that is no text message (an event of another kind, or a
\* message event whose message is not text) never has a reply sent for it,
\* never makes a store read and never a status query, and puts no operation
\* among those the webhook awaits.
C13_NonTextIgnored ==
    \A sl \in Slots :
        ~IsTextEvent(EventAt(sl))
            => /\ OpAt(sl).sent = <<>>
               /\ OpAt(sl).reads = 0
               /\ OpAt(sl).query = "none"
               /\ OpAt(sl).pc = "none"
               /\ OpAt(sl).promise = "none"
               /\ \A k \in 1..Len(calls[sl[1]].awaited) : calls[sl[1]].awaited[k] # sl[2]

\* C13 witness: a batch of a follow event and an image message has been
\* handled and the webhook has responded
C13_Witness ==
    \E c \in 1..MaxCalls :
        /\ calls[c].state = "responded"
        /\ Len(calls[c].events) = 2
        /\ calls[c].events[1].type = "follow"
        /\ calls[c].events[2].type = "message"
        /\ calls[c].events[2].mtype = "image"

\* C14 (as claimed): when the webhook has responded and every operation it
\* awaited was fulfilled, the response has a success status (2xx).
C14_SuccessResponse ==
    \A c \in 1..MaxCalls :
        (/\ calls[c].state = "responded"
         /\ \A k \in 1..Len(calls[c].awaited) :
               ops[c][calls[c].awaited[k]].promise = "fulfilled")
            => calls[c].status \in 200..299

\* the fragments of a chat text
Fragments(text) == {text[k] : k \in 1..Len(text)}

\* a rendering of a status snapshot: the labelled fields, address first
IsStatusRendering(text) ==
    /\ Len(text) >= 1
    /\ text[1] = "Server address: "
    /\ {"Server version: ", "Online players: ", "Players: ", "Server Description: "}
          \subseteq Fragments(text)

\* the texts the claim C15 allows
IsAllowedText(text) ==
    \/ text = <<"Command list:\n",
                "/help Display this message\n",
                "/mcstatus Check the status of my master's Minecraft Server\n">>
    \/ text = <<"Invalid command. Type /help to get some help">>
    \/ \E code \in {"redis_fail_get", "redis_not_string", "mc_query_fail"} :
          text = <<"Server is offline. Code: ", code>>
    \/ IsStatusRendering(text)

\* C15: every text sent to a chat user is the help text, the invalid-command
\* text, a rendering of a status snapshot, or "Server is offline. Code: "
\* followed by one of the three codes, whatever the store read, the address
\* parsing, the status query and the sends do.
C15_ClosedTextSet ==
    \A sl \in Slots : \A k \in 1..Len(OpAt(sl).sent) : IsAllowedText(OpAt(sl).sent[k])

\* C15 witness: two failures have each been answered: one STATUS event
\* after a failed store read, another after a failed status query
C15_Witness ==
    \E a \in Slots : \E b \in Slots :
        /\ OpAt(a).err /\ Len(OpAt(a).sent) = 1
        /\ OpAt(b).query = "fail" /\ Len(OpAt(b).sent) = 1

\* the labels of the fields of a status rendering
FieldLabels ==
    {"Server address: ", "Server port: ", "Server version: ", "Online players: ",
     "Players: ", "Server Description: "}

\* the fragments that follow a label in a rendering, up to the next label;
\* <<"(no such field)">> when the rendering has no such label
FieldOf(text, label) ==
    IF \A k \in 1..Len(text) : text[k] # label THEN <<"(no such field)">>
    ELSE LET at == CHOOSE k \in 1..Len(text) : text[k] = label
             ends == {m \in (at + 1)..(Len(text) + 1) :
                         m = Len(text) + 1 \/ text[m] \in FieldLabels}
             end == CHOOSE m \in ends : \A n \in ends : m <= n
         IN SubSeq(text, at + 1, end - 1)

\* the names of a list joined by commas, in list order
IsCommaJoined(field, names) ==
    /\ Len(field) = 2 * Len(names) - 1
    /\ \A k \in 1..Len(names) : field[2 * k - 1] = names[k]
    /\ \A k \in 1..(Len(names) - 1) : field[2 * k] = ","

\* C16, the player field: "none" when the list is absent or empty, the names
\* joined by commas in list order otherwise
C16_PlayersRendered ==
    (arg.fn = "formatServerResponse" /\ result.t = "value")
        => LET players == arg.srvResp.samplePlayers
               field == FieldOf(result.v, "Players: ")
           IN IF players.t = "null" \/ players.v = <<>>
              THEN field = <<"none">>
              ELSE IsCommaJoined(field, players.v)

\* C16, the port field: the port of the address when it has one, 25565
\* otherwise
C16_PortRendered ==
    (arg.fn = "formatServerResponse" /\ result.t = "value")
        => FieldOf(result.v, "Server port: ") =
              IF arg.ngrokPort.t = "string" /\ arg.ngrokPort.v # ""
              THEN <<arg.ngrokPort.v>>
              ELSE <<"25565">>

\* C16 (as claimed): formatServerResponse returns for every snapshot, the
\* empty player list included; the rendering shows the players as "none" or
\* as the comma-joined names, and shows the port of the address, or 25565
\* when the address has none.
C16_FormatPlayersAndPort ==
    C16_PlayersRendered /\ C16_PortRendered

\* C17 (as claimed): the mc_query_fail reply is sent for an event only if
\* the status query of that event failed; it is never sent for a STATUS
\* command whose query succeeded.
C17_QueryFailOnlyOnFailure ==
    \A sl \in Slots : \A k \in 1..Len(OpAt(sl).sent) :
        OpAt(sl).sent[k] = <<"Server is offline. Code: ", "mc_query_fail">>
            => OpAt(sl).query = "fail"

\* C18: a text event that is no STATUS command (HELP: the text contains
\* "/help"; INVALID: it contains neither token) is answered with exactly one
\* reply-send call carrying the static text of its kind, and makes no store
\* read and no status query, from its arrival on and whatever the store
\* holds.
C18_StaticReplies ==
    \A sl \in Slots :
        (IsTextEvent(EventAt(sl)) /\ ~IsStatusEvent(EventAt(sl)))
            => /\ OpAt(sl).sent =
                     IF Contains(EventAt(sl).text, <<"/", "h", "e", "l", "p">>)
                     THEN << <<"Command list:\n",
                               "/help Display this message\n",
                               "/mcstatus Check the status of my master's Minecraft Server\n">> >>
                     ELSE << <<"Invalid command. Type /help to get some help">> >>
               /\ OpAt(sl).reads = 0
               /\ OpAt(sl).query = "none"
               /\ OpAt(sl).pc \in {"sendDirect", "done"}

\* C18 witness: a HELP event and an INVALID event have both been answered
\* while the store held a registered address
C18_Witness ==
    \E a \in Slots : \E b \in Slots :
        /\ store.t = "string"
        /\ EventAt(a) = TextEvent(<<"/", "h", "e", "l", "p">>)
        /\ EventAt(b) = TextEvent(<<"h", "i">>)
        /\ OpAt(a).pc = "done" /\ OpAt(a).promise = "fulfilled"
        /\ OpAt(b).pc = "done" /\ OpAt(b).promise = "fulfilled"

\* what a STATUS operation has made of the value it read: the host and the
\* port it queries, and the port its rendering shows, all taken from `reply`
C19_DerivedFromRead(op) ==
    op.query # "none" =>
        /\ op.reply.t = "string"
        /\ variant = "url" =>
              /\ IsTcpUrl(op.reply.v)
              /\ op.args.host = <<op.reply.v[2]>>
              /\ op.args.port.t = "number"
              /\ op.args.port.v = PortNumber(op.reply.v[4])
              /\ op.query = "ok" =>
                    FieldOf(op.sent[1], "Server port: ") = <<op.reply.v[4]>>
        /\ variant = "hostname" =>
              /\ op.args.host = op.reply.v
              /\ op.args.port.t = "undefined"
        /\ op.query = "ok" =>
              FieldOf(op.sent[1], "Server address: ") = op.args.host

\* one step of the program, as far as the store and its readers go
C19_Step ==
    /\ \A c \in 1..MaxCalls : \A i \in 1..Len(ops'[c]) :
          IsStatusEvent(calls'[c].events[i]) =>
             \* one store read per STATUS command, made on arrival
             /\ ops'[c][i].reads = 1
             \* the read returns the whole value the store holds at that moment
             /\ (/\ i <= Len(ops[c])
                 /\ ops[c][i].pc = "get" /\ ops'[c][i].pc # "get"
                 /\ ~ops'[c][i].err) => ops'[c][i].reply = store
             \* and the value read stays what it was
             /\ (i <= Len(ops[c]) /\ ops[c][i].pc # "get")
                   => ops'[c][i].reply = ops[c][i].reply
             /\ C19_DerivedFromRead(ops'[c][i])
    \* the store only ever changes to the whole value of a write in flight
    /\ store' # store =>
          \E r \in 1..MaxRaceRegs : regs[r].state = "set" /\ store' = Str(regs[r].body)
    \* a write that is applied replaces whatever was there
    /\ \A r \in 1..MaxRaceRegs :
          (regs[r].state = "set" /\ regs'[r].sent = "OK") => store' = Str(regs[r].body)

\* C19: while registrations and STATUS commands run concurrently, a STATUS
\* command reads the store exactly once, and the host it queries, the port
\* it queries and the port it shows all come from the value of that read,
\* which is the whole value the store held at that moment: the previous
\* address or a newly written one, never parts of both; and each write that
\* is applied replaces the stored value, so after two concurrent
\* registrations the store holds the value of the write applied last.
C19_SingleReadLastWriteWins ==
    [][C19_Step]_vars

\* C19 witness: two registrations of different addresses were in flight
\* together and both were applied; a STATUS command that read the store
\* between the two writes queried the address written first and was
\* answered, and the store holds the address written last
C19_Witness ==
    \E sl \in Slots :
        /\ regs[1].sent = "OK" /\ regs[2].sent = "OK"
        /\ regs[1].body # regs[2].body
        /\ store = Str(regs[1].body)
        /\ OpAt(sl).reply = Str(regs[2].body)
        /\ OpAt(sl).query = "ok"
        /\ OpAt(sl).pc = "done"

\* C20: the store changes only in a step in which the write of a
\* registration request is applied, a request that carried the secret and
\* an address the validation accepts, and then it becomes exactly that
\* address; no step of the chat path (a webhook call, a store-read callback,
\* a status-query or reply-send settlement) changes it.
C20_OnlyRegistrationWrites ==
    [][store' # store =>
          /\ calls' = calls
          /\ ops' = ops
          /\ \E r \in 1..MaxRegs :
                /\ regs[r].state = "set"
                /\ regs'[r].state \in {"done", "dropped"}
                /\ regs'[r].sent # "Server Error"
                /\ regs[r].auth = Str("secret")
                /\ regs[r].body # <<>>
                /\ (variant = "url" => IsTcpUrl(regs[r].body))
                /\ store' = Str(regs[r].body)]_vars

\* C20 witness: a registration has replaced the stored address, and a STATUS
\* command has read the store and been answered
C20_Witness ==
    \E r \in 1..MaxRegs : \E sl \in Slots :
        /\ regs[r].sent = "OK"
        /\ store = Str(regs[r].body)
        /\ OpAt(sl).reads = 1
        /\ OpAt(sl).reply.t = "string"
        /\ OpAt(sl).reply # store
        /\ OpAt(sl).pc = "done"

====
